---- MODULE Spec2Model ----
(***************************************************************************)
(* Model of app/main.py: a FastAPI facade over the Drive v3 files API.     *)
(* The module-level startup code and the six route handlers are actions;   *)
(* the remote service is the state the handlers act on through the SDK     *)
(* calls they issue (files().list/get_media/get/create/delete/update).     *)
(***************************************************************************)
EXTENDS Integers, Sequences, FiniteSets, TLC

\* ---------------------------------------------------------------- bounds
\* number of file identifiers the remote service can hand out
MaxIds == 2
\* longest file content (bytes)
MaxLen == 2
\* bytes fetched by one next_chunk call (MediaIoBaseDownload chunksize)
ChunkSize == 1
\* items on the single result page files().list returns (no pageToken is followed)
PageSize == 1

\* ---------------------------------------------------------------- values
\* os.getenv of an unset variable
None == "None"
\* the folder that holds the service's files and another one the credential can reach
FolderA == "folderA"
FolderB == "folderB"
\* query parameter `extension` not supplied (Query(None))
NoExt == <<"None">>

Ids == 1..MaxIds
Names == { <<"a", ".", "p">>, <<"a", "p">> }
Extensions == { NoExt, <<>>, <<"p">> }
Faults == { "none", "forbidden", "transport" }

RECURSIVE Ramp(_)
Ramp(n) == IF n = 0 THEN <<>> ELSE Append(Ramp(n - 1), n - 1)
Payloads == { Ramp(n) : n \in 0..MaxLen }

Min(a, b) == IF a < b THEN a ELSE b

VARIABLES
  SERVICE_ACCOUNT_FILE, \* os.getenv("GOOGLE_SERVICE_ACCOUNT_FILE")
  FOLDER_ID,            \* os.getenv("GOOGLE_DRIVE_FOLDER_ID")
  phase,                \* "boot", "config_error", "crashed", "running"
  files,                \* the remote service: id -> file
  dl,                   \* the download request in flight
  resp,                 \* the response of the latest completed request
  orig,                 \* history: what each identifier was created with
  remoteUsed            \* history: a remote call has been issued

vars == <<SERVICE_ACCOUNT_FILE, FOLDER_ID, phase, files, dl, resp, orig, remoteUsed>>

\* ---------------------------------------------------------------- remote files
\* history of an identifier that names no file
NoOrigin == [src |-> "none", name |-> <<>>, content |-> <<>>]

FreeFile == [st |-> "free", name |-> <<>>, parent |-> "", trashed |-> FALSE, content |-> <<>>]
GoneFile == [st |-> "gone", name |-> <<>>, parent |-> "", trashed |-> FALSE, content |-> <<>>]
LiveFile(n, p, t, c) == [st |-> "live", name |-> n, parent |-> p, trashed |-> t, content |-> c]

Live(fs, id) == id \in Ids /\ fs[id].st = "live"

\* exceptions raised by .execute() / next_chunk()
NoErr == [type |-> "", msg |-> ""]
HttpError(status, reason) == [type |-> "HttpError", msg |-> <<"HttpError", status, reason>>]
TransportError == [type |-> "TransportError", msg |-> <<"TransportError", 0, "connection reset">>]
ErrNotFound == HttpError(404, "File not found")
ErrForbidden == HttpError(403, "insufficient permissions")

\* the exception one remote call on file `id` raises, NoErr when it succeeds
CallError(fs, id, fault) ==
  IF fault = "transport" THEN TransportError
  ELSE IF ~Live(fs, id) THEN ErrNotFound
  ELSE IF fault = "forbidden" THEN ErrForbidden
  ELSE NoErr

\* str(e)
Str(e) == e.msg

\* Python truthiness of an optional string (`not X`, `if extension:`)
Truthy(s) == s # None /\ s # ""
TruthySeq(s) == s # NoExt /\ s # <<>>

\* `name contains '<sub>'`
Contains(name, sub) ==
  \E i \in 0..(Len(name) - Len(sub)) : SubSeq(name, i + 1, i + Len(sub)) = sub

\* ---------------------------------------------------------------- responses
NoReq == [id |-> 0, name |-> <<>>, data |-> <<>>, fault |-> "none", pre |-> "free", parent |-> ""]
Req(id, n, d, fault, fs) ==
  [id |-> id, name |-> n, data |-> d, fault |-> fault,
   pre |-> IF id \in Ids THEN fs[id].st ELSE "free",
   parent |-> IF id \in Ids THEN fs[id].parent ELSE ""]

NoResp ==
  [op |-> "none", status |-> 0, detail |-> <<>>, message |-> <<>>, id |-> 0, name |-> <<>>,
   body |-> <<>>, files |-> {}, count |-> 0, trace |-> <<>>, req |-> NoReq]

\* one remote call and how it ended
Call(api, e) == [api |-> api, ok |-> (e = NoErr), err |-> e]

\* variant: execute(num_retries=1), a failed call is issued again
Execute_Retry(api, e) ==
  IF e = NoErr THEN << Call(api, e) >> ELSE << Call(api, e), Call(api, e) >>

\* request.execute() / next_chunk(): the remote calls one invocation issues (num_retries=0)
Execute(api, e) == << Call(api, e) >>

\* variant: the detail is a fixed text instead of str(e)
HTTPException500_Generic(e) == [status |-> 500, detail |-> <<"Internal Server Error">>]

\* raise HTTPException(status_code=500, detail=str(e))
HTTPException500(e) == [status |-> 500, detail |-> Str(e)]

\* of a failed request the history keeps the identifier, the fault and the file's state
Failed(req) == [req EXCEPT !.name = <<>>, !.data = <<>>]

Failure(op, e, trace, req) ==
  LET x == HTTPException500(e) IN
  [NoResp EXCEPT !.op = op, !.status = x.status, !.detail = x.detail, !.trace = trace,
                 !.req = Failed(req)]

\* an exception no handler catches: the framework's plain 500
Unhandled(op, trace, req) ==
  [NoResp EXCEPT !.op = op, !.status = 500, !.detail = <<"Internal Server Error">>,
                 !.trace = trace, !.req = Failed(req)]

\* ---------------------------------------------------------------- startup
\* variant: `and` in place of `or`
ConfigMissing_And(saf, fid) == ~Truthy(saf) /\ ~Truthy(fid)

ConfigMissing(saf, fid) == ~Truthy(saf) \/ ~Truthy(fid)

\* from_service_account_file reads and parses the file
CredentialsLoad(saf) == saf = "sa.json"

Startup ==
  /\ phase = "boot"
  /\ phase' = IF ConfigMissing(SERVICE_ACCOUNT_FILE, FOLDER_ID) THEN "config_error"
              ELSE IF ~CredentialsLoad(SERVICE_ACCOUNT_FILE) THEN "crashed"
              ELSE "running"
  /\ UNCHANGED <<SERVICE_ACCOUNT_FILE, FOLDER_ID, files, dl, resp, orig, remoteUsed>>

\* ---------------------------------------------------------------- GET /
root ==
  /\ phase = "running"
  /\ resp' = [NoResp EXCEPT !.op = "root", !.status = 200,
                            !.message = <<"Hello from FastAPI + Google Drive!">>]
  /\ UNCHANGED <<SERVICE_ACCOUNT_FILE, FOLDER_ID, phase, files, dl, orig, remoteUsed>>

\* ---------------------------------------------------------------- GET /files
\* variant: the name clause is added without the `if extension:` test
ListQuery_NoGuard(folder, extension) ==
  [parent |-> folder, trashed |-> FALSE, nameClause |-> TRUE,
   contains |-> <<".">> \o extension]

ListQuery(folder, extension) ==
  [parent |-> folder, trashed |-> FALSE,
   nameClause |-> TruthySeq(extension),
   contains |-> IF TruthySeq(extension) THEN <<".">> \o extension ELSE <<>>]

Matching(fs, q) ==
  { id \in Ids : /\ fs[id].st = "live"
                 /\ fs[id].parent = q.parent
                 /\ fs[id].trashed = q.trashed
                 /\ (q.nameClause => Contains(fs[id].name, q.contains)) }

\* files().list without pageSize/pageToken: the first page of the matches
Pages(fs, q) ==
  LET m == Matching(fs, q) IN
  { S \in SUBSET m : Cardinality(S) = Min(PageSize, Cardinality(m)) }

Entries(fs, page) == { [id |-> id, name |-> fs[id].name] : id \in page }

ListBody(found) == [count |-> Cardinality(found), files |-> found]

RequestError(fault) ==
  IF fault = "transport" THEN TransportError
  ELSE IF fault = "forbidden" THEN ErrForbidden ELSE NoErr

list_files(extension, fault) ==
  /\ phase = "running"
  /\ LET query == ListQuery(FOLDER_ID, extension)
         e == RequestError(fault)
         req == [NoReq EXCEPT !.name = extension, !.fault = fault]
     IN IF e # NoErr
        THEN resp' = Unhandled("list", Execute("list", e), req)
        ELSE \E page \in Pages(files, query) :
               LET b == ListBody(Entries(files, page)) IN
               resp' = [NoResp EXCEPT !.op = "list", !.status = 200, !.count = b.count,
                                      !.files = b.files, !.trace = Execute("list", e),
                                      !.req = req]
  /\ remoteUsed' = TRUE
  /\ UNCHANGED <<SERVICE_ACCOUNT_FILE, FOLDER_ID, phase, files, dl, orig>>

\* ---------------------------------------------------------------- GET /download/{file_id}
Idle == [pc |-> "idle", id |-> 0, buf |-> <<>>, progress |-> 0, done |-> FALSE, trace |-> <<>>]

\* MediaIoBaseDownload.next_chunk: one ranged get_media call, appended to fh
NextChunk(fs, d, fault) ==
  LET e0 == CallError(fs, d.id, fault)
      total == IF e0 = NoErr THEN Len(fs[d.id].content) ELSE 0
      e == IF e0 = NoErr /\ total > 0 /\ d.progress >= total
           THEN HttpError(416, "Requested range not satisfiable") ELSE e0
      data == IF e = NoErr
              THEN SubSeq(fs[d.id].content, d.progress + 1, Min(d.progress + ChunkSize, total))
              ELSE <<>>
  IN [err |-> e, buf |-> d.buf \o data, progress |-> d.progress + Len(data),
      done |-> (e = NoErr /\ d.progress + Len(data) = total)]

\* variant: `if not done` in place of `while not done`: one next_chunk call
LoopContinues_Once(done) == FALSE

\* `while not done`
LoopContinues(done) == ~done

\* variant: fh.seek(0) left out, fh is streamed from the end of what was written
ResponseBody_NoSeek(buf) == LET pos == Len(buf) IN SubSeq(buf, pos + 1, Len(buf))

\* fh.seek(0), then the response streams fh from its position
ResponseBody(buf) == LET pos == 0 IN SubSeq(buf, pos + 1, Len(buf))

download_file(file_id) ==
  /\ phase = "running"
  /\ dl.pc = "idle"
  /\ dl' = [Idle EXCEPT !.pc = "loop", !.id = file_id]
  /\ UNCHANGED <<SERVICE_ACCOUNT_FILE, FOLDER_ID, phase, files, resp, orig, remoteUsed>>

download_chunk(fault) ==
  /\ dl.pc = "loop"
  /\ LET r == NextChunk(files, dl, fault)
         t == dl.trace \o Execute("get_media", r.err)
     IN IF r.err # NoErr
        THEN /\ resp' = Failure("download", r.err, t,
                                [NoReq EXCEPT !.id = dl.id, !.fault = fault])
             /\ dl' = Idle
        ELSE /\ dl' = [dl EXCEPT !.buf = r.buf, !.progress = r.progress, !.done = r.done,
                                 !.trace = t,
                                 !.pc = IF LoopContinues(r.done) THEN "loop" ELSE "name"]
             /\ resp' = resp
  /\ remoteUsed' = TRUE
  /\ UNCHANGED <<SERVICE_ACCOUNT_FILE, FOLDER_ID, phase, files, orig>>

download_name(fault) ==
  /\ dl.pc = "name"
  /\ LET e == CallError(files, dl.id, fault)
         t == dl.trace \o Execute("get", e)
         req == [NoReq EXCEPT !.id = dl.id, !.fault = fault]
     IN resp' = IF e # NoErr
                THEN Failure("download", e, t, req)
                ELSE [NoResp EXCEPT !.op = "download", !.status = 200, !.id = dl.id,
                                    !.name = files[dl.id].name,
                                    !.body = ResponseBody(dl.buf),
                                    !.trace = t, !.req = req]
  /\ dl' = Idle
  /\ remoteUsed' = TRUE
  /\ UNCHANGED <<SERVICE_ACCOUNT_FILE, FOLDER_ID, phase, files, orig>>

\* ---------------------------------------------------------------- POST /upload
\* variant: "parents" is not the configured folder
FileMetadata_NoParents(filename, folder) == [name |-> filename, parents |-> <<"root">>]

FileMetadata(filename, folder) == [name |-> filename, parents |-> <<folder>>]

FreeIds(fs) == { id \in Ids : fs[id].st = "free" }
NewId(fs) == CHOOSE id \in FreeIds(fs) : \A j \in FreeIds(fs) : id <= j

\* files().create(body, media_body): the files after the call
Created(fs, meta, content) ==
  [fs EXCEPT ![NewId(fs)] = LiveFile(meta.name, meta.parents[1], FALSE, content)]

UploadBody(uploaded) == [id |-> uploaded.id, name |-> uploaded.name]

upload_file(filename, payload, fault, reupload) ==
  /\ phase = "running"
  /\ fault = "none" => FreeIds(files) # {}
  /\ reupload => resp.op = "download" /\ resp.status = 200 /\ payload = resp.body
  /\ LET e == RequestError(fault)
         req == [NoReq EXCEPT !.name = filename, !.data = payload, !.fault = fault]
         t == Execute("create", e)
     IN IF e # NoErr
        THEN /\ resp' = Failure("upload", e, t, req)
             /\ UNCHANGED <<files, orig>>
        ELSE LET id == NewId(files)
                 fs == Created(files, FileMetadata(filename, FOLDER_ID), payload)
                 b == UploadBody([id |-> id, name |-> fs[id].name])
             IN /\ files' = fs
                /\ resp' = [NoResp EXCEPT !.op = "upload", !.status = 200, !.id = b.id,
                                          !.name = b.name, !.trace = t, !.req = req]
                /\ orig' = [orig EXCEPT ![id] =
                              IF reupload
                              THEN [src |-> "reupload", name |-> filename,
                                    content |-> orig[resp.id].content]
                              ELSE [src |-> "fresh", name |-> filename, content |-> payload]]
  /\ remoteUsed' = TRUE
  /\ UNCHANGED <<SERVICE_ACCOUNT_FILE, FOLDER_ID, phase, dl>>

\* ---------------------------------------------------------------- DELETE /delete/{file_id}
\* variant: the file is moved to the trash (update trashed=True) instead of deleted
Deleted_Trash(fs, id) == [fs EXCEPT ![id].trashed = TRUE]

\* files().delete(fileId): the files after the call
Deleted(fs, id) == [fs EXCEPT ![id] = GoneFile]

DeleteBody(file_id) == <<"File", file_id, "deleted successfully">>

delete_file(file_id, fault) ==
  /\ phase = "running"
  /\ LET e == CallError(files, file_id, fault)
         req == Req(file_id, <<>>, <<>>, fault, files)
         t == Execute("delete", e)
     IN IF e # NoErr
        THEN /\ resp' = Failure("delete", e, t, req)
             /\ UNCHANGED <<files, orig>>
        ELSE /\ files' = Deleted(files, file_id)
             /\ resp' = [NoResp EXCEPT !.op = "delete", !.status = 200, !.id = file_id,
                                       !.message = DeleteBody(file_id),
                                       !.trace = t, !.req = req]
             /\ orig' = [orig EXCEPT ![file_id] = NoOrigin]
  /\ remoteUsed' = TRUE
  /\ UNCHANGED <<SERVICE_ACCOUNT_FILE, FOLDER_ID, phase, dl>>

\* ---------------------------------------------------------------- PATCH /rename/{file_id}
\* variant: the update call carries no body
Updated_NoBody(fs, id, body) == fs

\* files().update(fileId, body={"name": new_name}): the files after the call
Updated(fs, id, body) == [fs EXCEPT ![id].name = body.name]

RenameBody(updated) == [id |-> updated.id, new_name |-> updated.name]

rename_file(file_id, new_name, fault) ==
  /\ phase = "running"
  /\ LET e == CallError(files, file_id, fault)
         req == Req(file_id, new_name, files[file_id].name, fault, files)
         t == Execute("update", e)
     IN IF e # NoErr
        THEN /\ resp' = Failure("rename", e, t, req)
             /\ files' = files
        ELSE LET fs == Updated(files, file_id, [name |-> new_name])
                 b == RenameBody([id |-> file_id, name |-> fs[file_id].name])
             IN /\ files' = fs
                /\ resp' = [NoResp EXCEPT !.op = "rename", !.status = 200, !.id = b.id,
                                          !.name = b.new_name, !.trace = t, !.req = req]
  /\ remoteUsed' = TRUE
  /\ UNCHANGED <<SERVICE_ACCOUNT_FILE, FOLDER_ID, phase, dl, orig>>

\* ---------------------------------------------------------------- specification
\* the file the remote service holds before the process starts
InitialFiles ==
  { [i \in Ids |-> IF i = 1 THEN LiveFile(n, p, t, c) ELSE FreeFile] :
      n \in {<<"a", ".", "p">>}, c \in {Ramp(0), Ramp(MaxLen)},
      p \in {FolderA, FolderB}, t \in BOOLEAN }

Init ==
  /\ SERVICE_ACCOUNT_FILE \in {None, "", "missing.json", "sa.json"}
  /\ FOLDER_ID \in {None, "", FolderA}
  /\ phase = "boot"
  /\ files \in { f \in InitialFiles : ~(f[1].parent = FolderB /\ f[1].trashed) }
  /\ dl = Idle
  /\ resp = NoResp
  /\ orig = [i \in Ids |-> IF i = 1
                           THEN [src |-> "init", name |-> files[1].name,
                                 content |-> files[1].content]
                           ELSE NoOrigin]
  /\ remoteUsed = FALSE

Next ==
  \/ Startup
  \/ root
  \/ \E x \in Extensions, f \in Faults : list_files(x, f)
  \/ \E id \in Ids : download_file(id)
  \/ \E f \in Faults : download_chunk(f)
  \/ \E f \in Faults : download_name(f)
  \/ \E n \in Names, p \in Payloads, f \in Faults, r \in BOOLEAN : upload_file(n, p, f, r)
  \/ \E id \in Ids, f \in Faults : delete_file(id, f)
  \/ \E id \in Ids, n \in Names, f \in Faults : rename_file(id, n, f)

Spec == Init /\ [][Next]_vars

\* the request thread of a download keeps running until it has responded
LiveSpec ==
  Spec /\ WF_vars(\E f \in Faults : download_chunk(f))
       /\ WF_vars(\E f \in Faults : download_name(f))


\* ================================================================ properties
Absent(x) == x \in {None, ""}
Chars(ext) == IF ext = NoExt THEN <<>> ELSE ext

\* the non-trashed items of the configured folder
InFolder == { id \in Ids : /\ files[id].st = "live" /\ files[id].parent = FOLDER_ID
                           /\ ~files[id].trashed }
Listing(S) == { [id |-> id, name |-> files[id].name] : id \in S }
ListOk == resp.op = "list" /\ resp.status = 200
Done(op) == resp.op = op /\ resp.status = 200

\* C1: when either required setting is absent or empty, startup ends in the fatal
\* configuration error: the service never runs, no handler has run and no remote call
\* has been issued.
C1_StartupGate ==
  (Absent(SERVICE_ACCOUNT_FILE) \/ Absent(FOLDER_ID)) =>
    /\ phase \in {"boot", "config_error"}
    /\ resp = NoResp /\ dl = Idle /\ ~remoteUsed

C1_Witness ==
  phase = "config_error" /\ ~Absent(SERVICE_ACCOUNT_FILE) /\ FOLDER_ID = ""

\* C2 (as claimed): an unfiltered list returns every non-trashed item of the configured
\* folder, count being the number of items; a filtered list returns exactly the
\* non-trashed items of the folder whose name contains the extension.
C2_Original ==
  ListOk =>
    /\ resp.count = Cardinality(resp.files)
    /\ resp.files = Listing({ id \in InFolder : Contains(files[id].name, Chars(resp.req.name)) })

\* the items a list request is to select: with a non-empty extension, the names that
\* contain "." followed by it
C2_Expected ==
  { id \in InFolder :
      Chars(resp.req.name) # <<>> => Contains(files[id].name, <<".">> \o Chars(resp.req.name)) }

\* C2 (amended): list_files returns only non-trashed items of the configured folder, count
\* being the number of items; with a non-empty extension filter only items whose name
\* contains "." followed by the extension; and it returns all of those items whenever
\* they fit in the one result page the remote call returns, a full page otherwise.
C2_ListFirstPage ==
  ListOk =>
    /\ resp.count = Cardinality(resp.files)
    /\ resp.files \subseteq Listing(C2_Expected)
    /\ Cardinality(resp.files) = Min(PageSize, Cardinality(C2_Expected))

C2_Witness ==
  /\ ListOk /\ resp.req.name = <<"p">>
  /\ resp.count = 1
  /\ \E id \in InFolder : [id |-> id, name |-> files[id].name] \notin resp.files

\* C3: no file outside the configured folder is deleted, renamed or downloaded, and every
\* uploaded file has the configured folder as its parent.
C3_FolderConfined ==
  /\ Done("delete") \/ Done("rename") => resp.req.parent = FOLDER_ID
  /\ Done("download") \/ Done("upload") => files[resp.id].parent = FOLDER_ID

\* C4: in download, upload, delete and rename a failed remote call gives status 500 with
\* the error's message as detail, whatever the cause, and never a success body.
C4_FailureIs500 ==
  resp.op \in {"download", "upload", "delete", "rename"} =>
    \A i \in 1..Len(resp.trace) :
      ~resp.trace[i].ok => resp.status = 500 /\ resp.detail = resp.trace[i].err.msg

C4_Witness ==
  /\ resp.op = "download" /\ resp.status = 500
  /\ Len(resp.trace) = 2 /\ resp.trace[2].err = ErrForbidden
  /\ resp.detail = <<"HttpError", 403, "insufficient permissions">>

\* C5: deleting an existing identifier succeeds with the confirmation message and removes
\* the file; deleting the identifier again never succeeds: it is a 500, with the remote's
\* not-found error when the call reached the remote.
C5_DeleteTwice ==
  resp.op = "delete" =>
    /\ resp.req.pre = "live" /\ resp.req.fault = "none" =>
         /\ resp.status = 200
         /\ resp.message = <<"File", resp.req.id, "deleted successfully">>
         /\ files[resp.req.id].st = "gone"
    /\ resp.req.pre = "gone" =>
         /\ resp.status = 500
         /\ resp.req.fault # "transport" => resp.detail = <<"HttpError", 404, "File not found">>

C5_Witness ==
  /\ resp.op = "delete" /\ resp.req.pre = "gone" /\ resp.req.fault = "none"
  /\ resp.status = 500

\* a rename of an existing file that the remote does not fail
C6_RenameState ==
  resp.op = "rename" /\ resp.req.pre = "live" /\ resp.req.fault = "none" =>
    /\ resp.status = 200
    /\ resp.id = resp.req.id /\ resp.name = resp.req.name
    /\ files[resp.req.id].name = resp.req.name

C6_RenameAgain ==
  (/\ resp'.op = "rename" /\ resp'.status = 200
   /\ files[resp'.req.id].name = resp'.req.name) => files' = files

C7_RoundTrip ==
  /\ Done("download") => resp.body = orig[resp.id].content
  /\ Done("upload") => files[resp.id].content = resp.req.data

C7_Witness ==
  /\ Done("download") /\ orig[resp.id].src = "reupload"
  /\ Len(resp.body) > ChunkSize

\* C8: list, upload, delete and rename issue exactly one remote call, failed or not, and in
\* every handler a failed remote call is the last call of the request.
C8_NoRetry ==
  /\ resp.op \in {"list", "upload", "delete", "rename"} => Len(resp.trace) = 1
  /\ \A i \in 1..(Len(resp.trace) - 1) : resp.trace[i].ok
  /\ \A i \in 1..Len(dl.trace) : dl.trace[i].ok

C8_Witness ==
  /\ resp.op = "upload" /\ resp.status = 500 /\ Len(resp.trace) = 1
  /\ dl.pc = "loop" /\ Len(dl.trace) = 1

\* next_chunk calls a transfer of n bytes takes (an empty file takes one)
ChunksNeeded(n) == IF n = 0 THEN 1 ELSE (n + ChunkSize - 1) \div ChunkSize
ChunkCalls(t) == { i \in 1..Len(t) : t[i].api = "get_media" }
NameCalls(t) == { i \in 1..Len(t) : t[i].api = "get" }

C9_Order ==
  /\ dl.pc = "loop" => ~dl.done /\ NameCalls(dl.trace) = {}
  /\ dl.pc = "name" =>
       /\ dl.done /\ NameCalls(dl.trace) = {}
       /\ Len(dl.trace) = ChunksNeeded(Len(dl.buf))
  /\ resp.op = "download" =>
       /\ Cardinality(NameCalls(resp.trace)) <= 1
       /\ \A i \in NameCalls(resp.trace) :
            /\ i = Len(resp.trace)
            /\ \A j \in 1..(i - 1) : resp.trace[j].ok
       /\ (\E i \in ChunkCalls(resp.trace) : ~resp.trace[i].ok) => NameCalls(resp.trace) = {}
       /\ resp.status = 200 =>
            /\ NameCalls(resp.trace) # {}
            /\ \A i \in 1..Len(resp.trace) : resp.trace[i].ok

C9_Responds == (dl.pc # "idle") ~> (dl.pc = "idle")

\* C9: the chunk loop runs until the transfer is complete and no further; the name fetch
\* comes after it, once; the attachment is sent only after both succeeded; a failed chunk
\* fetch is followed by no name fetch; and a download in progress eventually responds.
C9_DownloadLoop == []C9_Order /\ C9_Responds

C9_Witness ==
  /\ Done("download") /\ Len(resp.trace) = 3
  /\ resp.trace[1].api = "get_media" /\ resp.trace[2].api = "get_media"
  /\ resp.trace[3].api = "get"

\* the identifier was returned by upload_file
Uploaded(id) == orig[id].src \in {"fresh", "reupload"}

C10_UploadState ==
  Done("upload") =>
    /\ resp.id \in Ids /\ resp.name = resp.req.name
    /\ files[resp.id] = LiveFile(resp.req.name, FOLDER_ID, FALSE, resp.req.data)

C10_UploadFrame ==
  (resp'.op = "upload" /\ resp'.status = 200 /\ files' # files) =>
    /\ files[resp'.id].st = "free"
    /\ \A j \in Ids \ {resp'.id} : files'[j] = files[j]

C10_ListedOriginal ==
  ListOk /\ resp.req.name = NoExt =>
    \A id \in Ids : Uploaded(id) /\ files[id].st # "gone" =>
      [id |-> id, name |-> orig[id].name] \in resp.files

\* C10 (as claimed): a successful upload returns a non-empty identifier and the uploaded
\* filename, creates exactly one file, in the configured folder, and changes no other
\* file; an unfiltered list made before any delete of that identifier has an entry with
\* that identifier and name.
C10_Original == [](C10_UploadState /\ C10_ListedOriginal) /\ [][C10_UploadFrame]_vars

\* the list part, before any delete or rename and for a folder that fits in one page
C10_Listed ==
  ListOk /\ resp.req.name = NoExt /\ Cardinality(InFolder) <= PageSize =>
    \A id \in Ids : Uploaded(id) /\ files[id].st # "gone" /\ files[id].name = orig[id].name =>
      [id |-> id, name |-> orig[id].name] \in resp.files

\* C10 (amended): as claimed, the list part holding before any delete or rename of the
\* identifier and when the folder's non-trashed items fit in the one result page the
\* remote call returns.
C10_Upload == [](C10_UploadState /\ C10_Listed) /\ [][C10_UploadFrame]_vars

C10_Witness ==
  /\ ListOk /\ resp.req.name = NoExt /\ Cardinality(InFolder) <= PageSize
  /\ \E id \in Ids : /\ Uploaded(id) /\ files[id].name = orig[id].name
                      /\ [id |-> id, name |-> orig[id].name] \in resp.files

====
